---- MODULE Spec2Model ----
(***************************************************************************)
(* Model of the recipe catalog: the sqlite-backed store (database/         *)
(* connection.py), the Recipe entity (models/recipe.py), the RecipeManager *)
(* repository (models/recipe_manager.py) and the menu loop (main.py).      *)
(***************************************************************************)
EXTENDS Integers, Sequences, FiniteSets, TLC

\* Cap on the number of ids the AUTOINCREMENT sequence hands out in a run.
MaxId == 2

(***************************************************************************)
(* Input values.                                                           *)
(***************************************************************************)
Names == {"Tea", "Cake"}
Descriptions == {"", "Hot drink"}
\* Ingredient data as (quantity, name) pairs; two orders of the same pairs.
IngredientData ==
    { <<>>,
      << <<"1 cup", "water">>, <<"2 tbsp", "flour">> >>,
      << <<"2 tbsp", "flour">>, <<"1 cup", "water">> >> }
StepLists == { <<"Boil water">>, <<"Boil water", "Add tea bag">> }

\* Python shapes of one ingredient: a dict with 'quantity' and 'name' keys,
\* a tuple (quantity, name), or a two-element list [quantity, name].
Shapes == {"dict", "tuple", "list"}

PyDict(p)  == [kind |-> "dict", quantity |-> p[1], name |-> p[2]]
PyTuple(p) == [kind |-> "tuple", e0 |-> p[1], e1 |-> p[2]]
PyList(p)  == [kind |-> "list", e0 |-> p[1], e1 |-> p[2]]

Shaped(shape, p) ==
    IF shape = "dict" THEN PyDict(p)
    ELSE IF shape = "tuple" THEN PyTuple(p) ELSE PyList(p)

\* The ingredient list carrying data d in the given shape.
InShape(shape, d) == [i \in 1..Len(d) |-> Shaped(shape, d[i])]

\* One ingredient read as a (quantity, name) pair, whatever its shape.
AsPair(e) == IF e.kind = "dict" THEN <<e.quantity, e.name>> ELSE <<e.e0, e.e1>>
AsPairs(ingredients) == [i \in 1..Len(ingredients) |-> AsPair(ingredients[i])]

IngredientInputs == { InShape(sh, d) : sh \in Shapes, d \in IngredientData }

Args(name, description, ingredients, steps) ==
    [name |-> name, description |-> description, ingredients |-> ingredients,
     steps |-> steps]

\* The recipes callers submit: a sample recipe and every recipe that differs
\* from it in one field.
Sample ==
    Args("Tea", "Hot drink",
         InShape("dict", << <<"1 cup", "water">>, <<"2 tbsp", "flour">> >>),
         <<"Boil water", "Add tea bag">>)

Differences(a, b) ==
    (IF a.name = b.name THEN 0 ELSE 1)
    + (IF a.description = b.description THEN 0 ELSE 1)
    + (IF a.ingredients = b.ingredients THEN 0 ELSE 1)
    + (IF a.steps = b.steps THEN 0 ELSE 1)

RecipeInputs ==
    { a \in [name : Names, description : Descriptions,
             ingredients : IngredientInputs, steps : StepLists] :
        Differences(a, Sample) <= 1 }

\* Storage faults an operation can meet: none, sqlite3.connect fails,
\* the statement fails, the commit at the end of the with-block fails.
Faults == {"none", "connect", "execute", "commit"}

IdInputs == 1..(MaxId + 1)

NoneValue == [kind |-> "None"]
NoArgs == [kind |-> "NoArgs"]

(***************************************************************************)
(* json.dumps / json.loads on the two nested fields.                       *)
(***************************************************************************)
\* A dict becomes a JSON object; a tuple and a list both become a JSON array.
json_dumps_ingredients(ingredients) ==
    [i \in 1..Len(ingredients) |->
        IF ingredients[i].kind = "dict"
        THEN [t |-> "object", quantity |-> ingredients[i].quantity,
              name |-> ingredients[i].name]
        ELSE [t |-> "array", a0 |-> ingredients[i].e0, a1 |-> ingredients[i].e1]]

\* A JSON object becomes a dict; a JSON array becomes a list (never a tuple).
json_loads_ingredients(text) ==
    [i \in 1..Len(text) |->
        IF text[i].t = "object"
        THEN [kind |-> "dict", quantity |-> text[i].quantity, name |-> text[i].name]
        ELSE [kind |-> "list", e0 |-> text[i].a0, e1 |-> text[i].a1]]

json_dumps_steps(steps) == [t |-> "array", items |-> steps]
json_loads_steps(text) == text.items

(***************************************************************************)
(* models/recipe.py                                                        *)
(***************************************************************************)
\* Recipe.__init__ with the two keys taken in the wrong order.
Recipe_swapped(recipe_id, name, description, ingredients, steps) ==
    [recipe_id |-> recipe_id,
     name |-> name,
     description |-> description,
     ingredients |->
        IF ingredients # <<>> /\ ingredients[1].kind = "dict"
        THEN [i \in 1..Len(ingredients) |->
                [kind |-> "tuple", e0 |-> ingredients[i].name,
                 e1 |-> ingredients[i].quantity]]
        ELSE ingredients,
     steps |-> steps]

\* Recipe.__init__: dict ingredients are converted to (quantity, name)
\* tuples when the first element is a dict; anything else is kept as given.
Recipe(recipe_id, name, description, ingredients, steps) ==
    [recipe_id |-> recipe_id,
     name |-> name,
     description |-> description,
     ingredients |->
        IF ingredients # <<>> /\ ingredients[1].kind = "dict"
        THEN [i \in 1..Len(ingredients) |->
                [kind |-> "tuple", e0 |-> ingredients[i].quantity,
                 e1 |-> ingredients[i].name]]
        ELSE ingredients,
     steps |-> steps]

(***************************************************************************)
(* database/connection.py and the sqlite store.                            *)
(* A database is [schema, rows, seq]: whether the Recipe table exists, the *)
(* set of its rows, and the AUTOINCREMENT high-water mark.                 *)
(***************************************************************************)
EmptyDatabase == [schema |-> FALSE, rows |-> {}, seq |-> 0]

\* get_connection: TRUE when a connection is returned, FALSE when
\* sqlite3.connect raises.
get_connection(fault) == fault # "connect"

\* schema.sql: CREATE TABLE IF NOT EXISTS Recipe (recipe_id INTEGER PRIMARY
\* KEY AUTOINCREMENT, ...): creates the table when missing, keeps the rows.
schema_sql(db) == [db EXCEPT !.schema = TRUE]

\* The rowid an AUTOINCREMENT primary key gives the next inserted row: one
\* more than the largest rowid the table has ever held.
autoincrement_rowid(db) == db.seq + 1

\* initialize_database: run schema.sql in a with-block.
initialize_database(db, fault) ==
    IF ~get_connection(fault) THEN [db |-> db, raised |-> TRUE]
    ELSE [db |-> schema_sql(db), raised |-> FALSE]

\* database.connection without the call that ends its module body.
load_connection_module_no_init(db, fault) == [db |-> db, raised |-> FALSE]

\* Loading database.connection: the module body ends by calling
\* initialize_database().
load_connection_module(db, fault) == initialize_database(db, fault)

\* cursor.execute raises when the statement fails or the table is missing.
execute_raises(db, fault) == fault = "execute" \/ ~db.schema

\* The connection an operation opened, as the caller finds it.  The
\* with-block commits or rolls back and never closes the connection; no
\* operation calls close().  After a normal return the connection object is
\* unreferenced: it stays open until the interpreter finalizes it.  After
\* an exception the traceback still refers to the frame that holds the
\* connection, so it is open while the caller handles the error.
conn_after_return == "unreferenced"
conn_after_raise == "open"

RowsWithId(db, recipe_id) == {r \in db.rows : r.recipe_id = recipe_id}

Raises(db, conn) == [db |-> db, ret |-> NoneValue, raised |-> TRUE, conn |-> conn]
Returns(db, ret) ==
    [db |-> db, ret |-> ret, raised |-> FALSE, conn |-> conn_after_return]

(***************************************************************************)
(* models/recipe_manager.py                                                *)
(***************************************************************************)
\* create_recipe returning cursor.rowcount in place of cursor.lastrowid.
create_recipe_rowcount(db, name, description, ingredients, steps, fault) ==
    IF ~get_connection(fault) THEN Raises(db, "none")
    ELSE IF execute_raises(db, fault) THEN Raises(db, conn_after_raise)
    ELSE LET lastrowid == autoincrement_rowid(db)
             row == [recipe_id |-> lastrowid,
                     name |-> name,
                     description |-> description,
                     ingredients |-> json_dumps_ingredients(ingredients),
                     steps |-> json_dumps_steps(steps)]
             txn == [db EXCEPT !.rows = @ \cup {row}, !.seq = lastrowid]
         IN  IF fault = "commit" THEN Raises(db, conn_after_raise)
             ELSE Returns(txn, 1)

create_recipe(db, name, description, ingredients, steps, fault) ==
    IF ~get_connection(fault) THEN Raises(db, "none")
    ELSE IF execute_raises(db, fault) THEN Raises(db, conn_after_raise)
    ELSE LET lastrowid == autoincrement_rowid(db)
             row == [recipe_id |-> lastrowid,
                     name |-> name,
                     description |-> description,
                     ingredients |-> json_dumps_ingredients(ingredients),
                     steps |-> json_dumps_steps(steps)]
             txn == [db EXCEPT !.rows = @ \cup {row}, !.seq = lastrowid]
         IN  IF fault = "commit" THEN Raises(db, conn_after_raise)
             ELSE Returns(txn, lastrowid)

\* SELECT recipe_id, name, description FROM Recipe
get_all_recipes(db, fault) ==
    IF ~get_connection(fault) THEN Raises(db, "none")
    ELSE IF execute_raises(db, fault) THEN Raises(db, conn_after_raise)
    ELSE Returns(db,
                 {[recipe_id |-> r.recipe_id, name |-> r.name,
                   description |-> r.description] : r \in db.rows})

\* get_recipe_by_id reading the name from the description column and the
\* description from the name column.
get_recipe_by_id_swapped_columns(db, recipe_id, fault) ==
    IF ~get_connection(fault) THEN Raises(db, "none")
    ELSE IF execute_raises(db, fault) THEN Raises(db, conn_after_raise)
    ELSE IF RowsWithId(db, recipe_id) # {}
         THEN LET row == CHOOSE r \in RowsWithId(db, recipe_id) : TRUE
              IN  Returns(db,
                          Recipe(row.recipe_id, row.description, row.name,
                                 json_loads_ingredients(row.ingredients),
                                 json_loads_steps(row.steps)))
         ELSE Returns(db, NoneValue)

get_recipe_by_id(db, recipe_id, fault) ==
    IF ~get_connection(fault) THEN Raises(db, "none")
    ELSE IF execute_raises(db, fault) THEN Raises(db, conn_after_raise)
    ELSE IF RowsWithId(db, recipe_id) # {}
         THEN LET row == CHOOSE r \in RowsWithId(db, recipe_id) : TRUE
              IN  Returns(db,
                          Recipe(row.recipe_id, row.name, row.description,
                                 json_loads_ingredients(row.ingredients),
                                 json_loads_steps(row.steps)))
         ELSE Returns(db, NoneValue)

\* update_recipe whose SET clause leaves out the description.
update_recipe_keeps_description(db, recipe_id, name, description, ingredients, steps, fault) ==
    IF ~get_connection(fault) THEN Raises(db, "none")
    ELSE IF execute_raises(db, fault) THEN Raises(db, conn_after_raise)
    ELSE LET rowcount == Cardinality(RowsWithId(db, recipe_id))
             txn == [db EXCEPT !.rows =
                        {IF r.recipe_id = recipe_id
                         THEN [r EXCEPT !.name = name,
                                        !.ingredients = json_dumps_ingredients(ingredients),
                                        !.steps = json_dumps_steps(steps)]
                         ELSE r : r \in @}]
         IN  IF fault = "commit" THEN Raises(db, conn_after_raise)
             ELSE Returns(txn, rowcount > 0)

\* update_recipe catching the storage error and reporting False.
update_recipe_swallow(db, recipe_id, name, description, ingredients, steps, fault) ==
    IF ~get_connection(fault) THEN [Raises(db, "none") EXCEPT !.ret = FALSE, !.raised = FALSE]
    ELSE IF execute_raises(db, fault) \/ fault = "commit"
         THEN [Raises(db, conn_after_raise) EXCEPT !.ret = FALSE, !.raised = FALSE]
    ELSE LET rowcount == Cardinality(RowsWithId(db, recipe_id))
             txn == [db EXCEPT !.rows =
                        {IF r.recipe_id = recipe_id
                         THEN [r EXCEPT !.name = name,
                                        !.description = description,
                                        !.ingredients = json_dumps_ingredients(ingredients),
                                        !.steps = json_dumps_steps(steps)]
                         ELSE r : r \in @}]
         IN  Returns(txn, rowcount > 0)

\* update_recipe whose UPDATE has no WHERE clause.
update_recipe_no_where(db, recipe_id, name, description, ingredients, steps, fault) ==
    IF ~get_connection(fault) THEN Raises(db, "none")
    ELSE IF execute_raises(db, fault) THEN Raises(db, conn_after_raise)
    ELSE LET rowcount == Cardinality(db.rows)
             txn == [db EXCEPT !.rows =
                        {[r EXCEPT !.name = name,
                                   !.description = description,
                                   !.ingredients = json_dumps_ingredients(ingredients),
                                   !.steps = json_dumps_steps(steps)] : r \in @}]
         IN  IF fault = "commit" THEN Raises(db, conn_after_raise)
             ELSE Returns(txn, rowcount > 0)

update_recipe(db, recipe_id, name, description, ingredients, steps, fault) ==
    IF ~get_connection(fault) THEN Raises(db, "none")
    ELSE IF execute_raises(db, fault) THEN Raises(db, conn_after_raise)
    ELSE LET rowcount == Cardinality(RowsWithId(db, recipe_id))
             txn == [db EXCEPT !.rows =
                        {IF r.recipe_id = recipe_id
                         THEN [r EXCEPT !.name = name,
                                        !.description = description,
                                        !.ingredients = json_dumps_ingredients(ingredients),
                                        !.steps = json_dumps_steps(steps)]
                         ELSE r : r \in @}]
         IN  IF fault = "commit" THEN Raises(db, conn_after_raise)
             ELSE Returns(txn, rowcount > 0)

\* delete_recipe testing rowcount >= 0.
delete_recipe_always_true(db, recipe_id, fault) ==
    IF ~get_connection(fault) THEN Raises(db, "none")
    ELSE IF execute_raises(db, fault) THEN Raises(db, conn_after_raise)
    ELSE LET rowcount == Cardinality(RowsWithId(db, recipe_id))
             txn == [db EXCEPT !.rows = {r \in @ : r.recipe_id # recipe_id}]
         IN  IF fault = "commit" THEN Raises(db, conn_after_raise)
             ELSE Returns(txn, rowcount >= 0)

\* delete_recipe whose DELETE is never committed.
delete_recipe_uncommitted(db, recipe_id, fault) ==
    IF ~get_connection(fault) THEN Raises(db, "none")
    ELSE IF execute_raises(db, fault) THEN Raises(db, conn_after_raise)
    ELSE LET rowcount == Cardinality(RowsWithId(db, recipe_id))
         IN  IF fault = "commit" THEN Raises(db, conn_after_raise)
             ELSE Returns(db, rowcount > 0)

delete_recipe(db, recipe_id, fault) ==
    IF ~get_connection(fault) THEN Raises(db, "none")
    ELSE IF execute_raises(db, fault) THEN Raises(db, conn_after_raise)
    ELSE LET rowcount == Cardinality(RowsWithId(db, recipe_id))
             txn == [db EXCEPT !.rows = {r \in @ : r.recipe_id # recipe_id}]
         IN  IF fault = "commit" THEN Raises(db, conn_after_raise)
             ELSE Returns(txn, rowcount > 0)

(***************************************************************************)
(* State.                                                                  *)
(***************************************************************************)
VARIABLES
    db,        \* the database file recipes.db
    loaded,    \* whether this process has imported models.recipe_manager
    lastOp,    \* the last call made and what its caller observed
    issued,    \* the ids create_recipe has returned, in order
    deleted,   \* the ids for which delete_recipe has returned True
    cli,       \* the last menu flow: the recipe selected and the answers typed
    built      \* the last Recipe constructed directly, with its arguments

vars == <<db, loaded, lastOp, issued, deleted, cli, built>>

NoAnswers == [kind |-> "NoAnswers"]
NoFlow == [flow |-> "none", selected |-> FALSE, before |-> NoneValue,
           answers |-> NoAnswers]
NoBuilt == [kind |-> "NoBuilt"]

StoredIds == {r.recipe_id : r \in db.rows}

Call(op, id, args, res, existed, fault) ==
    [op |-> op, id |-> id, args |-> args, ret |-> res.ret, raised |-> res.raised,
     conn |-> res.conn, existed |-> existed, fault |-> fault]

NoCall(op) ==
    [op |-> op, id |-> 0, args |-> NoArgs, ret |-> NoneValue, raised |-> FALSE,
     conn |-> "none", existed |-> FALSE, fault |-> "none"]

Init ==
    /\ db = EmptyDatabase
    /\ loaded = FALSE
    /\ lastOp = NoCall("start")
    /\ issued = <<>>
    /\ deleted = {}
    /\ cli = NoFlow
    /\ built = NoBuilt

\* The process starts and imports models.recipe_manager, whose first line
\* imports database.connection.
ImportRecipeManager ==
    /\ ~loaded
    /\ \E fault \in {"none", "connect"} :
       \E res \in {load_connection_module(db, fault)} :
         /\ db' = res.db
         /\ loaded' = ~res.raised
         /\ lastOp' = [NoCall("import") EXCEPT !.raised = res.raised, !.fault = fault]
    /\ UNCHANGED <<issued, deleted, cli, built>>

\* The process ends; the database file stays.
Exit ==
    /\ loaded
    /\ loaded' = FALSE
    /\ lastOp' = NoCall("exit")
    /\ cli' = NoFlow
    /\ UNCHANGED <<db, issued, deleted, built>>

CreateRecipe ==
    /\ loaded
    /\ db.seq < MaxId
    /\ \E a \in RecipeInputs, fault \in Faults :
       \E res \in {create_recipe(db, a.name, a.description, a.ingredients,
                                 a.steps, fault)} :
         /\ db' = res.db
         /\ lastOp' = Call("create", 0, IF res.raised THEN NoArgs ELSE a,
                           res, FALSE, fault)
         /\ issued' = IF res.raised THEN issued ELSE Append(issued, res.ret)
    /\ UNCHANGED <<loaded, deleted, cli, built>>

GetAllRecipes ==
    /\ loaded
    /\ \E fault \in Faults \ {"commit"} :
       \E res \in {get_all_recipes(db, fault)} :
         /\ db' = res.db
         /\ lastOp' = Call("get_all", 0, NoArgs, res, FALSE, fault)
    /\ UNCHANGED <<loaded, issued, deleted, cli, built>>

GetRecipeById ==
    /\ loaded
    /\ \E recipe_id \in IdInputs, fault \in Faults \ {"commit"} :
       \E res \in {get_recipe_by_id(db, recipe_id, fault)} :
         /\ db' = res.db
         /\ lastOp' = Call("get", recipe_id, NoArgs, res,
                           RowsWithId(db, recipe_id) # {}, fault)
    /\ UNCHANGED <<loaded, issued, deleted, cli, built>>

UpdateRecipe ==
    /\ loaded
    /\ \E recipe_id \in IdInputs, a \in RecipeInputs, fault \in Faults :
       \E res \in {update_recipe(db, recipe_id, a.name, a.description,
                                 a.ingredients, a.steps, fault)},
          existed \in {RowsWithId(db, recipe_id) # {}} :
         /\ db' = res.db
         /\ lastOp' = Call("update", recipe_id,
                           IF res.raised \/ ~existed THEN NoArgs ELSE a,
                           res, existed, fault)
    /\ UNCHANGED <<loaded, issued, deleted, cli, built>>

DeleteRecipe ==
    /\ loaded
    /\ \E recipe_id \in IdInputs, fault \in Faults :
       \E res \in {delete_recipe(db, recipe_id, fault)} :
         /\ db' = res.db
         /\ lastOp' = Call("delete", recipe_id, NoArgs, res,
                           RowsWithId(db, recipe_id) # {}, fault)
         /\ deleted' = IF ~res.raised /\ res.ret THEN deleted \cup {recipe_id}
                       ELSE deleted
    /\ UNCHANGED <<loaded, issued, cli, built>>

Next ==
    \/ ImportRecipeManager
    \/ Exit
    \/ CreateRecipe
    \/ GetAllRecipes
    \/ GetRecipeById
    \/ UpdateRecipe
    \/ DeleteRecipe

Spec == Init /\ [][Next]_vars

(***************************************************************************)
(* The Recipe constructor called directly, on the two documented shapes.   *)
(***************************************************************************)
ConstructorInputs ==
    [name : Names, description : Descriptions,
     ingredients : { InShape(sh, d) : sh \in {"dict", "tuple"}, d \in IngredientData },
     steps : StepLists]

ConstructRecipe ==
    /\ \E recipe_id \in IdInputs, a \in ConstructorInputs :
         built' = [args |-> a,
                   recipe |-> Recipe(recipe_id, a.name, a.description,
                                     a.ingredients, a.steps)]
    /\ UNCHANGED <<db, loaded, lastOp, issued, deleted, cli>>

NextEntity == ConstructRecipe

SpecEntity == Init /\ [][NextEntity]_vars

(***************************************************************************)
(* main.py: the menu loop.  A storage fault met by the flow's write is not *)
(* caught anywhere, so it ends the process.                                *)
(***************************************************************************)
\* get_ingredients_input: the ingredient lists the user types (always
\* dicts): none, or the sample's two ingredients.
TypedIngredients == { <<>>, Sample.ingredients }

\* get_recipe_input: the recipes the user types, each with a description.
CliInputs ==
    {a \in RecipeInputs : a.ingredients \in TypedIngredients /\ a.description # ""}

\* The storage fault the write of a menu flow can meet.
CliFaults == {"none", "execute"}

\* The answers to the prompts of the update flow.  An empty name or
\* description keeps the current one; the ingredient and step lists are
\* asked for only after a 'y'.
\* The user changes at most one of the four fields in one pass.
Answered(a) ==
    (IF a.name = "" THEN 0 ELSE 1) + (IF a.description = "" THEN 0 ELSE 1)
    + (IF a.update_ingredients THEN 1 ELSE 0) + (IF a.update_steps THEN 1 ELSE 0)

UpdateAnswers ==
    { a \in [name : Names \cup {""}, description : Descriptions,
             update_ingredients : BOOLEAN, ingredients : TypedIngredients,
             update_steps : BOOLEAN, steps : StepLists] :
        /\ ~a.update_ingredients => a.ingredients = <<>>
        /\ ~a.update_steps => a.steps = <<"Boil water">>
        /\ Answered(a) <= 1 }

\* The comprehension of the update flow with a loop variable called name:
\* in Python 2 its last value would replace the name the user entered.
existing_ingredients_leaky(recipe, name) ==
    [name |-> IF recipe.ingredients = <<>> THEN name
              ELSE recipe.ingredients[Len(recipe.ingredients)].e1,
     ingredients |-> [i \in 1..Len(recipe.ingredients) |->
                        [kind |-> "dict", quantity |-> recipe.ingredients[i].e0,
                         name |-> recipe.ingredients[i].e1]]]

\* [{"quantity": qty, "name": name} for qty, name in recipe.ingredients]:
\* the comprehension has its own scope, so the enclosing name is untouched.
existing_ingredients(recipe, name) ==
    [name |-> name,
     ingredients |-> [i \in 1..Len(recipe.ingredients) |->
                        [kind |-> "dict", quantity |-> recipe.ingredients[i].e0,
                         name |-> recipe.ingredients[i].e1]]]

\* display_recipes_and_get_choice: the ids the user can end up selecting;
\* 0 stands for 'back' and for an empty listing.
Choices == IF get_all_recipes(db, "none").ret = {} THEN {0} ELSE StoredIds \cup {0}

Flow(flow, selected, before, answers) ==
    [flow |-> flow, selected |-> selected, before |-> before, answers |-> answers]

AfterFlow(res) ==
    /\ db' = res.db
    /\ loaded' = ~res.raised

\* choice "1"
MenuView ==
    /\ loaded
    /\ \E choice \in Choices, fault \in CliFaults :
         IF choice = 0
         THEN \E res \in {get_all_recipes(db, fault)} :
                  /\ AfterFlow(res)
                  /\ lastOp' = Call("get_all", 0, NoArgs, res, FALSE, fault)
                  /\ cli' = Flow("view", FALSE, NoneValue, NoAnswers)
         ELSE \E res \in {get_recipe_by_id(db, choice, fault)} :
                  /\ AfterFlow(res)
                  /\ lastOp' = Call("get", choice, NoArgs, res, TRUE, fault)
                  /\ cli' = Flow("view", ~res.raised, res.ret, NoAnswers)
    /\ UNCHANGED <<issued, deleted, built>>

\* choice "2"
MenuAdd ==
    /\ loaded
    /\ db.seq < MaxId
    /\ \E a \in CliInputs, fault \in CliFaults :
       \E res \in {create_recipe(db, a.name, a.description, a.ingredients,
                                 a.steps, fault)} :
         /\ AfterFlow(res)
         /\ lastOp' = Call("create", 0, IF res.raised THEN NoArgs ELSE a,
                           res, FALSE, fault)
         /\ issued' = IF res.raised THEN issued ELSE Append(issued, res.ret)
         /\ cli' = Flow("add", FALSE, NoneValue, NoAnswers)
    /\ UNCHANGED <<deleted, built>>

\* choice "3"
MenuUpdate ==
    /\ loaded
    /\ \E choice \in Choices \ {0}, answers \in UpdateAnswers, fault \in CliFaults :
       \E recipe \in {get_recipe_by_id(db, choice, "none").ret} :
       \E name \in {IF answers.name # "" THEN answers.name ELSE recipe.name},
          description \in {IF answers.description # "" THEN answers.description
                           ELSE recipe.description} :
       \E kept \in {existing_ingredients(recipe, name)} :
       \E ingredients \in {IF answers.update_ingredients THEN answers.ingredients
                           ELSE kept.ingredients},
          submitted \in {IF answers.update_ingredients THEN name ELSE kept.name},
          steps \in {IF answers.update_steps THEN answers.steps ELSE recipe.steps} :
       \E res \in {update_recipe(db, recipe.recipe_id, submitted, description,
                                 ingredients, steps, fault)} :
         /\ AfterFlow(res)
         /\ lastOp' = Call("update", recipe.recipe_id,
                           IF res.raised THEN NoArgs
                           ELSE Args(submitted, description, ingredients, steps),
                           res, TRUE, fault)
         /\ cli' = Flow("update", TRUE, recipe, answers)
    /\ UNCHANGED <<issued, deleted, built>>

\* choice "4"
MenuDelete ==
    /\ loaded
    /\ \E choice \in Choices \ {0}, confirm \in BOOLEAN, fault \in CliFaults :
       \E found \in {get_recipe_by_id(db, choice, "none")} :
         IF confirm
         THEN \E res \in {delete_recipe(db, found.ret.recipe_id, fault)} :
                  /\ AfterFlow(res)
                  /\ lastOp' = Call("delete", found.ret.recipe_id, NoArgs, res,
                                    TRUE, fault)
                  /\ deleted' = IF ~res.raised /\ res.ret
                                THEN deleted \cup {found.ret.recipe_id}
                                ELSE deleted
                  /\ cli' = Flow("delete", TRUE, found.ret, NoAnswers)
         ELSE /\ UNCHANGED <<db, loaded, deleted>>
              /\ lastOp' = Call("get", choice, NoArgs, found, TRUE, "none")
              /\ cli' = Flow("delete", TRUE, found.ret, NoAnswers)
    /\ UNCHANGED <<issued, built>>

NextCLI ==
    \/ ImportRecipeManager
    \/ Exit
    \/ MenuView
    \/ MenuAdd
    \/ MenuUpdate
    \/ MenuDelete

SpecCLI == Init /\ [][NextCLI]_vars

(***************************************************************************)
(* Observations used by the properties.                                    *)
(***************************************************************************)
RepositoryOps == {"create", "get_all", "get", "update", "delete"}
WriteOps == {"create", "update", "delete"}

Range(seq) == {seq[i] : i \in 1..Len(seq)}

\* What get_recipe_by_id gives for recipe_id in the current state.
Fetched(recipe_id) == get_recipe_by_id(db, recipe_id, "none").ret

\* The Recipe r carries exactly the submitted fields, the ingredients read
\* as an ordered sequence of (quantity, name) pairs.
SameRecipe(r, a) ==
    /\ r # NoneValue
    /\ r.name = a.name
    /\ r.description = a.description
    /\ AsPairs(r.ingredients) = AsPairs(a.ingredients)
    /\ r.steps = a.steps

\* C1 (round trip): after create_recipe has returned an id, get_recipe_by_id
\* of that id returns a Recipe with the submitted name, description and
\* steps, and with the submitted ingredients as the same ordered sequence
\* of (quantity, name) pairs, whatever shape they were submitted in.
RoundTrip ==
    (lastOp.op = "create" /\ ~lastOp.raised) =>
        /\ Fetched(lastOp.ret) # NoneValue
        /\ Fetched(lastOp.ret).recipe_id = lastOp.ret
        /\ SameRecipe(Fetched(lastOp.ret), lastOp.args)

\* A recipe submitted with tuple ingredients in the non-sample order has
\* been created next to an earlier recipe.
RoundTripWitness ==
    /\ lastOp.op = "create" /\ ~lastOp.raised
    /\ Cardinality(db.rows) = 2
    /\ Len(lastOp.args.ingredients) = 2
    /\ lastOp.args.ingredients[1].kind = "tuple"
    /\ Fetched(lastOp.ret) # NoneValue
    /\ AsPairs(Fetched(lastOp.ret).ingredients)[1] = <<"2 tbsp", "flour">>

\* C2 (update completeness): after update_recipe on a stored id,
\* get_recipe_by_id of that id returns exactly the four submitted fields.
UpdateCompleteness ==
    (lastOp.op = "update" /\ ~lastOp.raised /\ lastOp.existed) =>
        /\ lastOp.ret = TRUE
        /\ SameRecipe(Fetched(lastOp.id), lastOp.args)
        /\ Fetched(lastOp.id).recipe_id = lastOp.id

\* A stored recipe has been updated to a description different from the
\* sample's, while another recipe is stored too.
UpdateCompletenessWitness ==
    /\ lastOp.op = "update" /\ ~lastOp.raised /\ lastOp.existed
    /\ lastOp.args.description = ""
    /\ Cardinality(db.rows) = 2

\* C3 (not-found semantics): for an id that was never issued or has been
\* deleted, get_recipe_by_id returns None and update_recipe and
\* delete_recipe return False, none of them raising; and update_recipe and
\* delete_recipe return False exactly when no row had the id.
NotFoundSemantics ==
    /\ loaded =>
        \A X \in IdInputs :
            (X \notin Range(issued) \/ X \in deleted) =>
                /\ get_recipe_by_id(db, X, "none") = Returns(db, NoneValue)
                /\ delete_recipe(db, X, "none") = Returns(db, FALSE)
                /\ \A a \in RecipeInputs :
                     update_recipe(db, X, a.name, a.description, a.ingredients,
                                   a.steps, "none") = Returns(db, FALSE)
    /\ (lastOp.op \in {"update", "delete"} /\ lastOp.fault = "none") =>
        /\ ~lastOp.raised
        /\ lastOp.ret = lastOp.existed
    /\ (lastOp.op = "get" /\ lastOp.fault = "none") =>
        /\ ~lastOp.raised
        /\ (lastOp.ret = NoneValue) = ~lastOp.existed

\* delete_recipe has been called on an id that had been deleted before.
NotFoundSemanticsWitness ==
    /\ lastOp.op = "delete" /\ lastOp.fault = "none"
    /\ lastOp.id \in deleted
    /\ ~lastOp.existed
    /\ db.rows # {}

\* C4 (delete permanence): an id for which delete_recipe returned True is
\* not found by get_recipe_by_id and is not listed by get_all_recipes, in
\* every later state.
DeletePermanence ==
    \A X \in deleted :
        /\ Fetched(X) = NoneValue
        /\ \A e \in get_all_recipes(db, "none").ret : e.recipe_id # X

\* A recipe has been created after another one was deleted.
DeletePermanenceWitness ==
    /\ deleted # {}
    /\ lastOp.op = "create" /\ ~lastOp.raised
    /\ db.rows # {}

\* C5 (id uniqueness and non-reuse): no two stored rows share an id, the
\* stored ids are exactly the issued ids that were not deleted (so update
\* changes no id), and create_recipe never returns an id it returned before.
IdUniqueness ==
    /\ \A r1, r2 \in db.rows : r1.recipe_id = r2.recipe_id => r1 = r2
    /\ StoredIds = Range(issued) \ deleted
    /\ \A i, j \in 1..Len(issued) : i # j => issued[i] # issued[j]
    /\ (lastOp.op = "update" /\ ~lastOp.raised) =>
            (lastOp.id \in StoredIds) = lastOp.existed

\* A second id has been issued after the first recipe was deleted.
IdUniquenessWitness ==
    /\ Len(issued) = 2
    /\ issued[1] \in deleted
    /\ lastOp.op = "create" /\ ~lastOp.raised

\* C7 (scoped-resource discipline), as claimed: the connection a
\* repository operation opened is not open any more when the operation has
\* returned or raised.
ScopedResourceDiscipline ==
    lastOp.op \in RepositoryOps => lastOp.conn # "open"

\* C8 (failed write): a create, update or delete that meets a storage fault
\* raises to its caller and leaves the database as it was.
FailedWriteLeavesStore ==
    [][(lastOp'.op \in WriteOps /\ lastOp'.fault # "none") =>
            (lastOp'.raised /\ db' = db)]_vars

\* An update of a stored recipe has failed at commit.
FailedWriteWitness ==
    /\ lastOp.op = "update" /\ lastOp.fault = "commit"
    /\ lastOp.existed /\ lastOp.raised
    /\ db.rows # {}

\* C9 (schema before use): whenever a repository operation has executed the
\* schema exists, and initialization changes no stored recipe.
SchemaBeforeUse ==
    /\ [](loaded => db.schema)
    /\ [](lastOp.op \in RepositoryOps => db.schema)
    /\ [][lastOp'.op = "import" => (db'.rows = db.rows /\ db'.seq = db.seq)]_vars

\* The module has been loaded again against a store that holds a recipe.
SchemaBeforeUseWitness ==
    /\ lastOp.op = "import" /\ ~lastOp.raised
    /\ loaded
    /\ db.rows # {}

\* C6 (ingredient normalization): a Recipe constructed from ingredients in
\* the mapping shape or in the pair shape holds them as (quantity, name)
\* tuples in input order, the same for both shapes of the same data.
IngredientNormalization ==
    built # NoBuilt =>
        /\ \A i \in 1..Len(built.recipe.ingredients) :
             built.recipe.ingredients[i].kind = "tuple"
        /\ built.recipe.ingredients = InShape("tuple", AsPairs(built.args.ingredients))
        /\ \A sh \in {"dict", "tuple"} :
             Recipe(built.recipe.recipe_id, built.args.name, built.args.description,
                    InShape(sh, AsPairs(built.args.ingredients)),
                    built.args.steps) = built.recipe

\* A Recipe has been constructed from two dict ingredients.
IngredientNormalizationWitness ==
    /\ built # NoBuilt
    /\ Len(built.args.ingredients) = 2
    /\ built.args.ingredients[1].kind = "dict"
    /\ built.args.ingredients[1].quantity = "2 tbsp"

\* C10 (menu update keeping the ingredients): when the user answers that
\* the ingredients are not to be updated, update_recipe receives the
\* selected recipe's ingredients as the same ordered (quantity, name)
\* sequence, get_recipe_by_id returns the same pairs afterwards, and the
\* name written is the name typed, or the previous name on empty input.
KeepExistingIngredients ==
    (lastOp.op = "update" /\ cli.flow = "update" /\ ~cli.answers.update_ingredients
        /\ ~lastOp.raised) =>
        /\ AsPairs(lastOp.args.ingredients) = AsPairs(cli.before.ingredients)
        /\ Fetched(cli.before.recipe_id) # NoneValue
        /\ AsPairs(Fetched(cli.before.recipe_id).ingredients)
              = AsPairs(cli.before.ingredients)
        /\ Fetched(cli.before.recipe_id).name
              = (IF cli.answers.name = "" THEN cli.before.name ELSE cli.answers.name)

\* The user renamed a recipe with two ingredients and kept the ingredients.
KeepExistingIngredientsWitness ==
    /\ lastOp.op = "update" /\ cli.flow = "update" /\ ~lastOp.raised
    /\ ~cli.answers.update_ingredients
    /\ cli.answers.name = "Cake" /\ cli.before.name = "Tea"
    /\ Len(cli.before.ingredients) = 2

\* The rows of a database whose id is not recipe_id.
OtherRows(d, recipe_id) == {r \in d.rows : r.recipe_id # recipe_id}

\* C11 (frame of the repository operations): update_recipe(X, ...) and
\* delete_recipe(X) leave every row with another id as it was and add no
\* row; when they return False the whole database is unchanged;
\* create_recipe keeps every existing row and adds one row under a new id;
\* get_recipe_by_id and get_all_recipes change nothing.
RepositoryFrame ==
    [][/\ lastOp'.op \in {"update", "delete"} =>
            /\ OtherRows(db', lastOp'.id) = OtherRows(db, lastOp'.id)
            /\ Cardinality(RowsWithId(db', lastOp'.id))
                  <= Cardinality(RowsWithId(db, lastOp'.id))
            /\ db'.seq = db.seq /\ db'.schema = db.schema
            /\ (~lastOp'.raised /\ lastOp'.ret = FALSE) => db' = db
       /\ lastOp'.op = "create" =>
            /\ db.rows \subseteq db'.rows
            /\ ~lastOp'.raised =>
                  /\ Cardinality(db'.rows) = Cardinality(db.rows) + 1
                  /\ \A r \in db'.rows \ db.rows :
                        /\ r.recipe_id = lastOp'.ret
                        /\ RowsWithId(db, r.recipe_id) = {}
       /\ lastOp'.op \in {"get", "get_all"} => db' = db]_vars

\* A stored recipe has been renamed while a recipe with another id and
\* another name is stored.
RepositoryFrameWitness ==
    /\ lastOp.op = "update" /\ ~lastOp.raised /\ lastOp.existed
    /\ lastOp.args.name = "Cake"
    /\ \E r \in OtherRows(db, lastOp.id) : r.name = "Tea"

====
